---- MODULE Spec2Model ----
(***************************************************************************)
(* Model of shared/bin/stix_to_zeek_intel.py: main().                      *)
(*                                                                         *)
(* A Python str is a sequence of one-character strings; None is the value  *)
(* None below, which is no such sequence.  The command line, the file      *)
(* system and the TAXII servers are the environment; every call into them  *)
(* that can raise does so nondeterministically.                            *)
(***************************************************************************)
EXTENDS Integers, Sequences, FiniteSets, TLC

VARIABLES
    pc,                 \* position of main()
    output,             \* args.output: None, or the path given with -o
    outfile,            \* outfile of line 118: "not entered", "none" (what nullcontext() gives), or the file "open" or "closed"
    inputFile,          \* args.inputFile: None, or the references the loop of line 122 has yet to take
    argsInput,          \* args.input; from line 152 on, the specifiers the loop has yet to take
    rawInput,           \* observation: args.input as line 148 found it, kept until the loop of line 152 starts
    lastWarning,        \* observation: the latest logging.warning record
    events,             \* observation: the calls made for the latest specifier that made any, in order
    source,             \* observation: the source= argument of the latest ProcessSTIX call, or None
    taxiiConnInfo,
    taxiiVersion,
    taxiiDisoveryURL,
    taxiiCollectionName,
    taxiiUsername,
    taxiiPassword,
    server,             \* version of the Server object, or None
    rootIdx,            \* index of api_root in server.api_roots
    collectionUrls,     \* insertion-ordered dict: sequence of [title, id, url]
    colIdx,             \* index of (title, info) in collectionUrls.items()
    collection,         \* [ver, id] of the Collection object, or None
    pager,              \* version of the as_pages generator, or None
    pageNo,             \* envelopes the generator has yielded so far
    requestArgs         \* observation: keyword arguments of the latest get_objects request, or None

vars == << pc, output, outfile, inputFile, argsInput, rawInput, lastWarning, events, source,
           taxiiConnInfo, taxiiVersion, taxiiDisoveryURL, taxiiCollectionName,
           taxiiUsername, taxiiPassword, server, rootIdx, collectionUrls,
           colIdx, collection, pager, pageNo, requestArgs >>

sinkVars == << output, outfile >>

taxiiVars == << taxiiConnInfo, taxiiVersion, taxiiDisoveryURL, taxiiCollectionName,
                taxiiUsername, taxiiPassword, server, rootIdx, collectionUrls,
                colIdx, collection, pager, pageNo, requestArgs >>

-----------------------------------------------------------------------------
(* Bounds *)

MaxDirect == 2          \* -i/--input specifiers on the command line
MaxRefs == 2            \* --input-file references on the command line

-----------------------------------------------------------------------------
(* Python values and str methods *)

None == << "None" >>

UpperChars == << "A","B","C","D","E","F","G","H","I","J","K","L","M",
                 "N","O","P","Q","R","S","T","U","V","W","X","Y","Z" >>
LowerChars == << "a","b","c","d","e","f","g","h","i","j","k","l","m",
                 "n","o","p","q","r","s","t","u","v","w","x","y","z" >>

LowerChar(c) ==
    IF \E i \in 1..26 : UpperChars[i] = c
    THEN LowerChars[CHOOSE i \in 1..26 : UpperChars[i] = c]
    ELSE c

\* str.lower()
Lower(s) == [i \in 1..Len(s) |-> LowerChar(s[i])]

\* str.startswith(p)
StartsWith(s, p) ==
    /\ Len(s) >= Len(p)
    /\ SubSeq(s, 1, Len(p)) = p

\* p in s
Contains(s, p) ==
    \E i \in 1..(Len(s) - Len(p) + 1) : SubSeq(s, i, i + Len(p) - 1) = p

\* index of the first occurrence of character c in s, 0 when there is none
FirstIndex(s, c) ==
    IF \E i \in 1..Len(s) : s[i] = c
    THEN CHOOSE i \in 1..Len(s) : s[i] = c /\ \A j \in 1..(i-1) : s[j] # c
    ELSE 0

\* str.split(sep) for a one-character separator
RECURSIVE Split(_, _)
Split(s, sep) ==
    LET i == FirstIndex(s, sep)
    IN  IF i = 0 THEN << s >>
        ELSE << SubSeq(s, 1, i-1) >> \o Split(SubSeq(s, i+1, Len(s)), sep)

\* str.splitlines()
RECURSIVE SplitLines(_)
SplitLines(s) ==
    LET i == FirstIndex(s, "\n")
    IN  IF s = << >> THEN << >>
        ELSE IF i = 0 THEN << s >>
        ELSE << SubSeq(s, 1, i-1) >> \o SplitLines(SubSeq(s, i+1, Len(s)))

\* str.join for a one-character separator
RECURSIVE Join(_, _)
Join(fs, sep) ==
    IF Len(fs) = 0 THEN << >>
    ELSE IF Len(fs) = 1 THEN fs[1]
    ELSE fs[1] \o << sep >> \o Join(Tail(fs), sep)

\* index of the last occurrence of character c in s, 0 when there is none
LastIndex(s, c) ==
    IF \E i \in 1..Len(s) : s[i] = c
    THEN CHOOSE i \in 1..Len(s) : s[i] = c /\ \A k \in (i+1)..Len(s) : s[k] # c
    ELSE 0

\* os.path.basename
Basename(p) == SubSeq(p, LastIndex(p, "/") + 1, Len(p))

\* os.path.splitext(p)[0]: the last dot of the last component starts the
\* extension unless only dots stand before it in that component
SplitextRoot(p) ==
    LET sepIndex == LastIndex(p, "/")
        dotIndex == LastIndex(p, ".")
    IN  IF dotIndex > sepIndex /\ \E i \in (sepIndex + 1)..(dotIndex - 1) : p[i] # "."
        THEN SubSeq(p, 1, dotIndex - 1)
        ELSE p

-----------------------------------------------------------------------------
(* The environment: command line, file system, download server *)

FileA == << "a",".","j" >>
FileB == << "d","/","b",".","c",".","j" >>
FileTaxii == << "t","a","x","i","i",".","j" >>
UrlX == << "h",":","/","/","x" >>
TaxiiStar == << "t","a","x","i","i","|","2",".","1","|","u","|","*" >>
TaxiiName == << "T","A","X","I","I","|","2",".","0","|","u","|","A","|","n","|","p","|","z" >>
TaxiiBadVer == << "t","a","x","i","i","|","3","|","u","|","a","|","n","|","p" >>
TaxiiShort == << "t","a","x","i","i","|","2",".","0","|","u" >>
TaxiiB64 == << "t","a","x","i","i","|","b","a","s","e","6","4",":","M","i","4","x","|","v","|","b","|","n" >>
TaxiiBadB64 == << "t","a","x","i","i","|","b","a","s","e","6","4",":","M","|","u","|","*" >>
TaxiiStarV == << "t","a","x","i","i","|","2",".","0","|","v","|","*","|","n","|","p" >>

\* specifiers that may follow -i/--input
DirectUniverse == { FileA, UrlX, TaxiiStar, TaxiiName, TaxiiBadVer, TaxiiB64 }

RefLocal == << "l" >>
RefRemote == << "h",":","/","/","r" >>
RefMissing == << "m" >>

\* references that may follow --input-file
RefUniverse == { RefLocal, RefRemote, RefMissing }

\* the path that may follow -o/--output
OutPath == << "o" >>

\* os.path.isfile
IsFile(p) == p \in { FileA, FileB, FileTaxii, RefLocal }

\* what f.read() returns for a list file
FileContent(p) ==
    IF p = RefLocal THEN << "a",".","j","\n","\n" >> \o TaxiiBadB64 \o << "\n" >> \o UrlX
                         \o << "\n" >> \o FileTaxii
    ELSE IF p = RefRemote
    THEN FileB \o << "\n" >> \o TaxiiShort \o << "\n","a",".","j","\n" >> \o TaxiiStarV \o << "\n" >>
    ELSE << >>

SeqsUpTo(S, n) == UNION { [1..k -> S] : k \in 0..n }

-----------------------------------------------------------------------------
(* State after argument parsing (lines 97-116) *)

\* logging.warning(f"{type(e).__name__} for ...") and logging.warning(f"File ... not found")
Warning(scope, id, kind) == [scope |-> scope, id |-> id, kind |-> kind]

NoWarning == Warning("none", None, "none")

Init ==
    /\ pc = "start"
    /\ output \in { None, OutPath }
    /\ outfile = "not entered"
    /\ inputFile \in { None } \cup SeqsUpTo(RefUniverse, MaxRefs)
    /\ argsInput \in SeqsUpTo(DirectUniverse, MaxDirect)
    /\ rawInput = << >>
    /\ lastWarning = NoWarning
    /\ events = << >>
    /\ source = None
    /\ taxiiConnInfo = << >>
    /\ taxiiVersion = None
    /\ taxiiDisoveryURL = None
    /\ taxiiCollectionName = None
    /\ taxiiUsername = None
    /\ taxiiPassword = None
    /\ server = None
    /\ rootIdx = 1
    /\ collectionUrls = << >>
    /\ colIdx = 1
    /\ collection = None
    /\ pager = None
    /\ pageNo = 0
    /\ requestArgs = None

-----------------------------------------------------------------------------
(* Lines 118-122: enter the output context, start iterating args.inputFile *)

\* the with statement of line 118 is left and the file stays open
ExitOutputLeaks(f) == f

\* the with statement of line 118 is left: a file is closed, nullcontext does nothing
ExitOutput(f) == IF f = "open" THEN "closed" ELSE f

\* line 118: open(args.output, 'w') or nullcontext() is entered
OpenOutput ==
    /\ pc = "start"
    /\ UNCHANGED source
    /\ \/ /\ output = None
          /\ outfile' = "none"
          /\ pc' = "entered"
       \/ /\ output # None
          /\ outfile' = "open"
          /\ pc' = "entered"
       \/ \* open raises
          /\ output # None
          /\ pc' = "crashed"
          /\ UNCHANGED outfile
    /\ UNCHANGED << output, inputFile, argsInput, rawInput, lastWarning, events >>
    /\ UNCHANGED taxiiVars

\* iter(args.inputFile): a TypeError when the option was not given
IterInputFileRaises == inputFile = None

\* lines 119-122; the TypeError leaves the with statement
EnterResolution ==
    /\ pc = "entered"
    /\ UNCHANGED source
    /\ IF IterInputFileRaises
       THEN /\ pc' = "crashed"
            /\ outfile' = ExitOutput(outfile)
       ELSE /\ pc' = "listfiles"
            /\ UNCHANGED outfile
    /\ UNCHANGED << output, inputFile, argsInput, rawInput, lastWarning, events >>
    /\ UNCHANGED taxiiVars

(* Lines 122-144: one iteration of the list-file loop *)

infileArg == Head(inputFile)

SchemeMarker == << ":","/","/" >>

\* the exception leaves the loop of line 122
ReadLocalListFileUncaught ==
    /\ pc = "listfiles"
    /\ UNCHANGED source
    /\ inputFile # << >>
    /\ IsFile(infileArg)
    /\ \/ /\ argsInput' = argsInput \o SplitLines(FileContent(infileArg))
          /\ inputFile' = Tail(inputFile)
          /\ UNCHANGED << pc, lastWarning >>
       \/ /\ pc' = "crashed"
          /\ UNCHANGED << argsInput, inputFile, lastWarning >>
    /\ UNCHANGED << sinkVars, rawInput, events >>
    /\ UNCHANGED taxiiVars

\* lines 124-127 and 143-144
ReadLocalListFile ==
    /\ pc = "listfiles"
    /\ UNCHANGED source
    /\ UNCHANGED sinkVars
    /\ inputFile # << >>
    /\ IsFile(infileArg)
    /\ \/ /\ argsInput' = argsInput \o SplitLines(FileContent(infileArg))
          /\ UNCHANGED lastWarning
       \/ \* open or read raises
          /\ lastWarning' = Warning("ref", infileArg, "OSError")
          /\ UNCHANGED argsInput
    /\ inputFile' = Tail(inputFile)
    /\ UNCHANGED << pc, rawInput, events >>
    /\ UNCHANGED taxiiVars

\* lines 129-139 and 143-144
DownloadListFile ==
    /\ pc = "listfiles"
    /\ UNCHANGED source
    /\ UNCHANGED sinkVars
    /\ inputFile # << >>
    /\ ~IsFile(infileArg)
    /\ Contains(infileArg, SchemeMarker)
    /\ \/ /\ argsInput' = argsInput \o SplitLines(FileContent(infileArg))
          /\ UNCHANGED lastWarning
       \/ \* download_to_file returned None, or a name that is no file
          /\ UNCHANGED << argsInput, lastWarning >>
       \/ \* temporary_filename, download_to_file, open or read raises
          /\ lastWarning' = Warning("ref", infileArg, "Error")
          /\ UNCHANGED argsInput
    /\ inputFile' = Tail(inputFile)
    /\ UNCHANGED << pc, rawInput, events >>
    /\ UNCHANGED taxiiVars

\* lines 141-142
ListFileNotFound ==
    /\ pc = "listfiles"
    /\ UNCHANGED source
    /\ UNCHANGED sinkVars
    /\ inputFile # << >>
    /\ ~IsFile(infileArg)
    /\ ~Contains(infileArg, SchemeMarker)
    /\ lastWarning' = Warning("ref", infileArg, "not found")
    /\ inputFile' = Tail(inputFile)
    /\ UNCHANGED << pc, argsInput, rawInput, events >>
    /\ UNCHANGED taxiiVars

(* Lines 146-149: deduplicate input sources *)

\* only adjacent repeats are dropped
RECURSIVE DedupAdjacent(_, _)
DedupAdjacent(xs, seenInput) ==
    IF xs = << >> THEN << >>
    ELSE IF Head(xs) \in seenInput THEN DedupAdjacent(Tail(xs), seenInput)
    ELSE << Head(xs) >> \o DedupAdjacent(Tail(xs), { Head(xs) })

\* [seenInput.setdefault(x, x) for x in xs if x not in seenInput]
RECURSIVE DedupFrom(_, _)
DedupFrom(xs, seenInput) ==
    IF xs = << >> THEN << >>
    ELSE IF Head(xs) \in seenInput THEN DedupFrom(Tail(xs), seenInput)
    ELSE << Head(xs) >> \o DedupFrom(Tail(xs), seenInput \cup { Head(xs) })

Deduplicate ==
    /\ pc = "listfiles"
    /\ UNCHANGED source
    /\ UNCHANGED sinkVars
    /\ inputFile = << >>
    /\ rawInput' = argsInput
    /\ argsInput' = DedupFrom(argsInput, { })
    /\ pc' = "process"
    /\ UNCHANGED << inputFile, lastWarning, events >>
    /\ UNCHANGED taxiiVars

-----------------------------------------------------------------------------
(* stix_zeek_utils.base64_decode_if_prefixed *)

Base64Chars == << "A","B","C","D","E","F","G","H","I","J","K","L","M","N","O","P",
                  "Q","R","S","T","U","V","W","X","Y","Z","a","b","c","d","e","f",
                  "g","h","i","j","k","l","m","n","o","p","q","r","s","t","u","v",
                  "w","x","y","z","0","1","2","3","4","5","6","7","8","9","+","/" >>

\* the printable ASCII characters, code 32 first (code 96 is spelled out)
AsciiChars == << " ","!","\"","#","$","%","&","'","(",")","*","+",",","-",".","/",
                 "0","1","2","3","4","5","6","7","8","9",":",";","<","=",">","?",
                 "@","A","B","C","D","E","F","G","H","I","J","K","L","M","N","O",
                 "P","Q","R","S","T","U","V","W","X","Y","Z","[","\\","]","^","_",
                 "grave","a","b","c","d","e","f","g","h","i","j","k","l","m","n","o",
                 "p","q","r","s","t","u","v","w","x","y","z","{","|","}","~" >>

Raised == << "Raised" >>

Base64Prefix == << "b","a","s","e","6","4",":" >>

Base64Val(c) == IF c = "=" THEN 0 ELSE (CHOOSE i \in 1..64 : Base64Chars[i] = c) - 1

Base64Pad(p) == Cardinality({ i \in 1..Len(p) : p[i] = "=" })

Base64Valid(p) ==
    /\ Len(p) % 4 = 0
    /\ \A i \in 1..Len(p) : p[i] = "=" \/ \E k \in 1..64 : Base64Chars[k] = p[i]
    /\ Base64Pad(p) <= 2
    /\ \A i \in 1..Len(p) : p[i] = "=" => i > Len(p) - Base64Pad(p)

\* the bytes of one group of four characters
GroupBytes(g) ==
    LET bits == Base64Val(g[1]) * 262144 + Base64Val(g[2]) * 4096
                + Base64Val(g[3]) * 64 + Base64Val(g[4])
        all == << bits \div 65536, (bits \div 256) % 256, bits % 256 >>
    IN  SubSeq(all, 1, 3 - Base64Pad(g))

RECURSIVE Base64Bytes(_)
Base64Bytes(p) ==
    IF p = << >> THEN << >>
    ELSE GroupBytes(SubSeq(p, 1, 4)) \o Base64Bytes(SubSeq(p, 5, Len(p)))

\* b64decode(p).decode('utf-8')
Base64Decode(p) ==
    IF ~Base64Valid(p) THEN Raised
    ELSE LET bytes == Base64Bytes(p)
         IN  IF \E i \in 1..Len(bytes) : bytes[i] < 32 \/ bytes[i] > 126
             THEN Raised
             ELSE [i \in 1..Len(bytes) |-> AsciiChars[bytes[i] - 31]]

base64_decode_if_prefixed(s) ==
    IF StartsWith(s, Base64Prefix)
    THEN Base64Decode(SubSeq(s, Len(Base64Prefix) + 1, Len(s)))
    ELSE s

-----------------------------------------------------------------------------
(* The environment: TAXII servers *)

TitleLowerA == << "a" >>
TitleUpperA == << "A" >>
TitleB == << "b" >>

ServerU == << "u" >>
ServerV == << "v" >>

\* server.title
ServerTitle(url) == IF url = ServerU THEN << "s" >> ELSE None

Coll(id, title) == [id |-> id, url |-> id, title |-> title]

\* server.api_roots, each api_root given by its api_root.collections
ApiRoots(url) ==
    IF url = ServerU
    THEN << << Coll(1, TitleLowerA), Coll(2, TitleUpperA) >>, << Coll(3, TitleLowerA) >> >>
    ELSE << << Coll(4, TitleB) >>, << Coll(5, None) >> >>

\* indicator objects a collection holds
NumObjects(id) == << 0, 3, 1, 2, 0 >>[id]

\* stix_zeek_utils.TAXII_PAGE_SIZE
TaxiiPageSize == 2

\* stix_zeek_utils.TAXII_INDICATOR_FILTER
TaxiiIndicatorFilter == [type |-> "indicator"]

\* the generator asks for one page more when the last page was a full one
MorePagesInclusive(id, n) == n * TaxiiPageSize <= NumObjects(id)

\* whether the generator has another page after it yielded n pages
MorePages(id, n) == n * TaxiiPageSize < NumObjects(id)

-----------------------------------------------------------------------------
(* Lines 152-235: the processing loop *)

inarg == Head(argsInput)

Event(op, coll, page) == [op |-> op, spec |-> inarg, coll |-> coll, page |-> page]

\* the calls made for inarg so far, followed by es
Emit(es) == IF events # << >> /\ events[1].spec # inarg THEN es ELSE events \o es

TaxiiMarker == << "t","a","x","i","i" >>

\* a name that starts with the protocol marker is taken for a connection string
IsFileSpecifierUnlessTaxii(x) == x # None /\ IsFile(x) /\ ~StartsWith(Lower(x), TaxiiMarker)

\* line 154: open(inarg) is entered
IsFileSpecifier(x) == x # None /\ IsFile(x)

\* line 159
IsTaxiiSpecifier(x) == StartsWith(Lower(x), TaxiiMarker)

\* the specifier's try block has ended without an exception
SpecifierDone ==
    /\ argsInput' = Tail(argsInput)
    /\ pc' = "process"

\* the exception leaves the loop instead of being handled
SpecifierHandlerUncaught(kind) ==
    /\ lastWarning' = Warning("spec", inarg, kind)
    /\ argsInput' = argsInput
    /\ pc' = "done"

\* lines 234-235: the handler of the specifier's try, then the next inarg
SpecifierHandler(kind) ==
    /\ lastWarning' = Warning("spec", inarg, kind)
    /\ argsInput' = Tail(argsInput)
    /\ pc' = "process"

\* line 156: source=os.path.splitext(os.path.basename(inarg))[0]
FileSource(x) == SplitextRoot(Basename(x))

FileCalls == << Event("open", 0, 0), Event("conv", 0, 0), Event("close", 0, 0) >>

\* lines 154-157
ProcessFile ==
    /\ pc = "process"
    /\ UNCHANGED sinkVars
    /\ argsInput # << >>
    /\ IsFileSpecifier(inarg)
    /\ \/ \* open(inarg) raises
          /\ UNCHANGED << events, source >>
          /\ SpecifierHandler("OSError")
       \/ \* ProcessSTIX raises, the with statement closes the file
          /\ events' = Emit(FileCalls)
          /\ source' = FileSource(inarg)
          /\ SpecifierHandler("Error")
       \/ /\ events' = Emit(FileCalls)
          /\ source' = FileSource(inarg)
          /\ SpecifierDone
          /\ UNCHANGED lastWarning
    /\ rawInput' = << >>
    /\ UNCHANGED inputFile
    /\ UNCHANGED taxiiVars

\* line 169
ConnInfo(x) ==
    LET fields == Tail(Split(x, "|"))
    IN  [i \in 1..Len(fields) |-> base64_decode_if_prefixed(fields[i])]

ConnInfoRaises(x) == \E i \in 1..Len(ConnInfo(x)) : ConnInfo(x)[i] = Raised

\* the username is taken one field too late
ParsedUsernameShifted(info) == IF Len(info) >= 5 THEN info[5] ELSE None

\* lines 170-182
ParsedVersion(info) == IF Len(info) >= 3 THEN info[1] ELSE None
ParsedDiscoveryURL(info) == IF Len(info) >= 3 THEN info[2] ELSE None
ParsedCollectionName(info) == IF Len(info) >= 3 THEN info[3] ELSE None
ParsedUsername(info) == IF Len(info) >= 4 THEN info[4] ELSE None
ParsedPassword(info) == IF Len(info) >= 5 THEN info[5] ELSE None

Version20 == << "2",".","0" >>
Version21 == << "2",".","1" >>

\* every version other than "2.1" is taken for "2.0", as lines 206-226 do
VersionSupportedLenient(v) == v = Version21 \/ v # Version21

\* lines 185-190
VersionSupported(v) == v = Version20 \/ v = Version21

\* lines 159-190: parse the connection string and construct the Server
StartTaxii ==
    /\ pc = "process"
    /\ UNCHANGED source
    /\ UNCHANGED sinkVars
    /\ argsInput # << >>
    /\ ~IsFileSpecifier(inarg)
    /\ IsTaxiiSpecifier(inarg)
    /\ IF ConnInfoRaises(inarg)
       THEN /\ SpecifierHandler("binascii.Error")
            /\ UNCHANGED events
            /\ UNCHANGED taxiiVars
       ELSE LET info == ConnInfo(inarg) IN
            /\ taxiiConnInfo' = info
            /\ taxiiVersion' = ParsedVersion(info)
            /\ taxiiDisoveryURL' = ParsedDiscoveryURL(info)
            /\ taxiiCollectionName' = ParsedCollectionName(info)
            /\ taxiiUsername' = ParsedUsername(info)
            /\ taxiiPassword' = ParsedPassword(info)
            /\ IF ~VersionSupported(ParsedVersion(info))
               THEN /\ SpecifierHandler("Exception")
                    /\ UNCHANGED << events, server, rootIdx, collectionUrls >>
               ELSE \/ \* the Server constructor raises
                       /\ events' = Emit(<< Event("connect", 0, 0) >>)
                       /\ SpecifierHandler("Error")
                       /\ UNCHANGED << server, rootIdx, collectionUrls >>
                    \/ /\ events' = Emit(<< Event("connect", 0, 0) >>)
                       /\ server' = ParsedVersion(info)
                       /\ collectionUrls' = << >>
                       /\ rootIdx' = 1
                       /\ pc' = "enumerate"
                       /\ UNCHANGED << argsInput, lastWarning >>
            /\ UNCHANGED << colIdx, collection, pager, pageNo, requestArgs >>
    /\ rawInput' = << >>
    /\ UNCHANGED inputFile

Star == << "*" >>

\* lines 196-198; raises for a title of None once the name is not "*"
MatchRaises(coll, name) == name # Star /\ coll.title = None

\* titles are compared as they are
MatchesCaseSensitive(coll, name) ==
    \/ name = Star
    \/ coll.title = name

\* lines 196-198
Matches(coll, name) ==
    \/ name = Star
    \/ Lower(coll.title) = Lower(name)

\* a title that is a key already keeps the collection it stands for
DictSetFirstWins(urls, title, id, url) ==
    IF \E i \in 1..Len(urls) : urls[i].title = title
    THEN urls
    ELSE Append(urls, [title |-> title, id |-> id, url |-> url])

\* line 199: collectionUrls[title] = {...}; a dict keeps the position of a key it has
DictSet(urls, title, id, url) ==
    LET entry == [title |-> title, id |-> id, url |-> url]
    IN  IF \E i \in 1..Len(urls) : urls[i].title = title
        THEN [i \in 1..Len(urls) |-> IF urls[i].title = title THEN entry ELSE urls[i]]
        ELSE Append(urls, entry)

\* lines 195-202 for the collections of one api_root
RECURSIVE MatchInto(_, _, _)
MatchInto(urls, colls, name) ==
    IF colls = << >> THEN [urls |-> urls, raised |-> FALSE]
    ELSE LET c == Head(colls) IN
         IF MatchRaises(c, name) THEN [urls |-> urls, raised |-> TRUE]
         ELSE IF Matches(c, name)
         THEN MatchInto(DictSet(urls, c.title, c.id, c.url), Tail(colls), name)
         ELSE MatchInto(urls, Tail(colls), name)

\* retrieval starts as soon as an api_root gave a match
EnumerateRootEager ==
    /\ pc = "enumerate"
    /\ UNCHANGED source
    /\ UNCHANGED sinkVars
    /\ events' = Emit(<< Event("collections", 0, rootIdx) >>)
    /\ LET roots == ApiRoots(taxiiDisoveryURL) IN
       \/ \* server.api_roots or api_root.collections raises
          /\ SpecifierHandler("Error")
          /\ UNCHANGED << collectionUrls, rootIdx, colIdx >>
       \/ LET r == MatchInto(collectionUrls, roots[rootIdx], taxiiCollectionName) IN
          /\ collectionUrls' = r.urls
          /\ IF r.raised
             THEN /\ SpecifierHandler("AttributeError")
                  /\ UNCHANGED << rootIdx, colIdx >>
             ELSE IF rootIdx < Len(roots) /\ r.urls = << >>
             THEN /\ rootIdx' = rootIdx + 1
                  /\ UNCHANGED << pc, argsInput, lastWarning, colIdx >>
             ELSE IF r.urls = << >>
             THEN /\ SpecifierDone
                  /\ UNCHANGED << rootIdx, lastWarning, colIdx >>
             ELSE /\ pc' = "retrieve"
                  /\ colIdx' = 1
                  /\ UNCHANGED << rootIdx, argsInput, lastWarning >>
    /\ UNCHANGED << inputFile, rawInput >>
    /\ UNCHANGED << taxiiConnInfo, taxiiVersion, taxiiDisoveryURL, taxiiCollectionName,
                    taxiiUsername, taxiiPassword, server, collection, pager, pageNo,
                    requestArgs >>

\* lines 194-202: one iteration of the loop over server.api_roots
EnumerateRoot ==
    /\ pc = "enumerate"
    /\ UNCHANGED source
    /\ UNCHANGED sinkVars
    /\ events' = Emit(<< Event("collections", 0, rootIdx) >>)
    /\ LET roots == ApiRoots(taxiiDisoveryURL) IN
       \/ \* server.api_roots or api_root.collections raises
          /\ SpecifierHandler("Error")
          /\ UNCHANGED << collectionUrls, rootIdx, colIdx >>
       \/ LET r == MatchInto(collectionUrls, roots[rootIdx], taxiiCollectionName) IN
          /\ collectionUrls' = r.urls
          /\ IF r.raised
             THEN /\ SpecifierHandler("AttributeError")
                  /\ UNCHANGED << rootIdx, colIdx >>
             ELSE IF rootIdx < Len(roots)
             THEN /\ rootIdx' = rootIdx + 1
                  /\ UNCHANGED << pc, argsInput, lastWarning, colIdx >>
             ELSE IF r.urls = << >>
             THEN /\ SpecifierDone
                  /\ UNCHANGED << rootIdx, lastWarning, colIdx >>
             ELSE /\ pc' = "retrieve"
                  /\ colIdx' = 1
                  /\ UNCHANGED << rootIdx, argsInput, lastWarning >>
    /\ UNCHANGED << inputFile, rawInput >>
    /\ UNCHANGED << taxiiConnInfo, taxiiVersion, taxiiDisoveryURL, taxiiCollectionName,
                    taxiiUsername, taxiiPassword, server, collection, pager, pageNo,
                    requestArgs >>

\* the Collection class and as_pages are those of 2.1 whatever the version is
ClientVersionNewest(v) == Version21

\* lines 206-210 and 214-226: the version of the Collection class and of as_pages
ClientVersion(v) == IF v = Version21 THEN Version21 ELSE Version20

\* lines 205-226: construct the Collection and the page generator
OpenCollection ==
    /\ pc = "retrieve"
    /\ UNCHANGED source
    /\ UNCHANGED sinkVars
    /\ events' = Emit(<< Event("session", collectionUrls[colIdx].id, 0) >>)
    /\ \/ \* the Collection constructor raises, outside the inner try
          /\ SpecifierHandler("Error")
          /\ UNCHANGED << collection, pager, pageNo >>
       \/ /\ collection' = [ver |-> ClientVersion(taxiiVersion), id |-> collectionUrls[colIdx].id]
          /\ pager' = ClientVersion(taxiiVersion)
          /\ pageNo' = 0
          /\ pc' = "page"
          /\ UNCHANGED << argsInput, lastWarning >>
    /\ UNCHANGED << inputFile, rawInput >>
    /\ UNCHANGED << taxiiConnInfo, taxiiVersion, taxiiDisoveryURL, taxiiCollectionName,
                    taxiiUsername, taxiiPassword, server, rootIdx, collectionUrls, colIdx,
                    requestArgs >>

\* the for statement of line 205 takes its next item
NextCollection ==
    /\ colIdx' = colIdx + 1
    /\ IF colIdx < Len(collectionUrls)
       THEN /\ pc' = "retrieve"
            /\ UNCHANGED argsInput
       ELSE SpecifierDone

\* the exception of a page reaches the handler of line 235
CollectionHandlerPropagates(kind) ==
    /\ SpecifierHandler(kind)
    /\ UNCHANGED colIdx

\* lines 231-232: the handler of the collection's try
CollectionHandler(kind) ==
    /\ lastWarning' = Warning("coll", collectionUrls[colIdx].title, kind)
    /\ NextCollection

\* the next page is requested before the envelope is handed over
PageCallsPrefetch(n) == << Event("request", collection.id, n),
                           Event("request", collection.id, n + 1),
                           Event("conv", collection.id, n) >>

\* lines 214-229: next(as_pages), then ProcessSTIX on the envelope
PageCalls(n) == << Event("request", collection.id, n), Event("conv", collection.id, n) >>

\* lines 214-226: what as_pages passes to collection.get_objects with every request
RequestArgs == [per_request |-> TaxiiPageSize, filter |-> TaxiiIndicatorFilter]

\* the half that is None is joined as well
TaxiiSourceUnfiltered(serverTitle, title) == Join(<< serverTitle, title >>, ":")

\* line 228: source=':'.join([x for x in [server.title, title] if x is not None])
TaxiiSource(serverTitle, title) ==
    Join(SelectSeq(<< serverTitle, title >>, LAMBDA x : x # None), ":")

\* lines 214-229: one iteration of the loop over the pages
NextPage ==
    /\ pc = "page"
    /\ UNCHANGED sinkVars
    /\ requestArgs' = RequestArgs
    /\ LET n == pageNo + 1 IN
       \/ \* the request for the page raises
          /\ events' = Emit(<< Event("request", collection.id, n) >>)
          /\ CollectionHandler("Error")
          /\ UNCHANGED << pageNo, source >>
       \/ \* ProcessSTIX raises on the envelope
          /\ events' = Emit(PageCalls(n))
          /\ source' = TaxiiSource(ServerTitle(taxiiDisoveryURL), collectionUrls[colIdx].title)
          /\ CollectionHandler("Error")
          /\ pageNo' = n
       \/ /\ events' = Emit(PageCalls(n))
          /\ source' = TaxiiSource(ServerTitle(taxiiDisoveryURL), collectionUrls[colIdx].title)
          /\ pageNo' = n
          /\ UNCHANGED lastWarning
          /\ IF MorePages(collection.id, n)
             THEN UNCHANGED << pc, argsInput, colIdx >>
             ELSE NextCollection
    /\ UNCHANGED << inputFile, rawInput >>
    /\ UNCHANGED << taxiiConnInfo, taxiiVersion, taxiiDisoveryURL, taxiiCollectionName,
                    taxiiUsername, taxiiPassword, server, rootIdx, collectionUrls,
                    collection, pager >>

\* lines 154-159: neither branch is taken and the with statement ends
SkipSpecifier ==
    /\ pc = "process"
    /\ UNCHANGED source
    /\ UNCHANGED sinkVars
    /\ argsInput # << >>
    /\ ~IsFileSpecifier(inarg)
    /\ ~IsTaxiiSpecifier(inarg)
    /\ SpecifierDone
    /\ rawInput' = << >>
    /\ UNCHANGED << inputFile, lastWarning, events >>
    /\ UNCHANGED taxiiVars

\* line 152: args.input is exhausted, the output context is left
Finish ==
    /\ pc = "process"
    /\ UNCHANGED source
    /\ argsInput = << >>
    /\ pc' = "done"
    /\ outfile' = ExitOutput(outfile)
    /\ UNCHANGED output
    /\ rawInput' = << >>
    /\ UNCHANGED << inputFile, argsInput, lastWarning, events >>
    /\ UNCHANGED taxiiVars

Next ==
    \/ OpenOutput
    \/ EnterResolution
    \/ ReadLocalListFile
    \/ DownloadListFile
    \/ ListFileNotFound
    \/ Deduplicate
    \/ ProcessFile
    \/ StartTaxii
    \/ EnumerateRoot
    \/ OpenCollection
    \/ NextPage
    \/ SkipSpecifier
    \/ Finish

Spec == Init /\ [][Next]_vars

-----------------------------------------------------------------------------
(* Vocabulary of the properties *)

\* main() is inside the loop of line 152
Processing == { "process", "enumerate", "retrieve", "page" }

\* the loop of line 152 is about to take a specifier
AtSpecifier == pc = "process" /\ argsInput # << >>

\* es records a hand-off to the Converter for specifier x
ConvertedIn(es, x) == \E n \in 1..Len(es) : es[n].op = "conv" /\ es[n].spec = x

\* the step logs a warning at the given scope for the given identifier
Warns(scope, id) == /\ lastWarning'.scope = scope
                    /\ lastWarning'.id = id

\* the calls the step makes: what it adds to events, or puts in their place
NewCalls == IF Len(events') >= Len(events) /\ SubSeq(events', 1, Len(events)) = events
            THEN SubSeq(events', Len(events) + 1, Len(events'))
            ELSE events'

IsPrefix(xs, ys) == Len(xs) <= Len(ys) /\ SubSeq(ys, 1, Len(xs)) = xs

\* the pipe-delimited fields after the protocol marker, decoded
FieldsOf(x) == LET f == Split(x, "|")
               IN  [i \in 1..(Len(f) - 1) |-> base64_decode_if_prefixed(f[i + 1])]

\* inarg is a connection string, not the name of an existing file
AtTaxiiSpecifier == AtSpecifier /\ ~IsFile(inarg) /\ StartsWith(Lower(inarg), TaxiiMarker)

\* fewer than three fields, or a version field that is neither "2.0" nor "2.1"
IncompleteOrUnsupported(x) ==
    \/ Len(FieldsOf(x)) < 3
    \/ FieldsOf(x)[1] \notin { << "2",".","0" >>, << "2",".","1" >> }

\* every field of x decodes
Decodes(x) == \A i \in 1..Len(FieldsOf(x)) : FieldsOf(x)[i] # Raised

FirstPos(xs, x) == CHOOSE i \in 1..Len(xs) : xs[i] = x /\ \A j \in 1..(i-1) : xs[j] # x

-----------------------------------------------------------------------------
\* C1: an exception raised while one specifier is processed is caught at that
\* specifier: the step logs that specifier, the loop goes on with the next one
\* and never ends before the last; no step passes over more than one
\* specifier; an existing file is handed to the Converter or logged as
\* failed, and a well-formed connection string gets its server connection.
C1_Step ==
    pc \in Processing =>
        /\ pc' \in Processing \cup { "done" }
        /\ (pc' = "done" => argsInput = << >>)
        /\ (argsInput # << >> => argsInput' \in { argsInput, Tail(argsInput) })
        /\ (lastWarning' # lastWarning /\ lastWarning'.scope = "spec" =>
              /\ lastWarning'.id = inarg
              /\ argsInput' = Tail(argsInput)
              /\ pc' = "process")
        /\ (AtSpecifier /\ IsFile(inarg) =>
              \/ ConvertedIn(events', inarg)
              \/ Warns("spec", inarg))
        /\ (AtTaxiiSpecifier /\ Decodes(inarg) /\ ~IncompleteOrUnsupported(inarg) =>
              /\ events' # << >>
              /\ events'[1] = [op |-> "connect", spec |-> inarg, coll |-> 0, page |-> 0])

\* C1: every step of the run satisfies C1_Step.
C1_PerSpecifierIsolation == [][C1_Step]_vars

\* the Converter raised on a file, and a later specifier was handed to the
\* Converter all the same
C1_Witness ==
    /\ pc \in Processing \cup { "done" }
    /\ lastWarning.scope = "spec"
    /\ lastWarning.kind = "Error"
    /\ IsFile(lastWarning.id)
    /\ events # << >>
    /\ events[1].spec # lastWarning.id
    /\ ConvertedIn(events, events[1].spec)

-----------------------------------------------------------------------------
\* C2: no well-formed command line ends the run with an uncaught exception;
\* the run always gets to the loop over the resolved specifiers.
C2_NoFatalError == pc # "crashed"

-----------------------------------------------------------------------------
\* C3: the resolved list has no string twice, has exactly the strings of the
\* input, and orders them by their first occurrence in the input.
C3_Deduplication ==
    /\ DedupFrom(<< FileA, FileA, FileB >>, { }) = << FileA, FileB >>
    /\ rawInput # << >> =>
        /\ pc = "process"
        /\ \A i, j \in 1..Len(argsInput) : argsInput[i] = argsInput[j] => i = j
        /\ { argsInput[i] : i \in 1..Len(argsInput) } = { rawInput[i] : i \in 1..Len(rawInput) }
        /\ \A i, j \in 1..Len(argsInput) :
              i < j => FirstPos(rawInput, argsInput[i]) < FirstPos(rawInput, argsInput[j])

\* an input with a repeat that is neither first nor adjacent was resolved
C3_Witness ==
    /\ pc = "process"
    /\ Len(argsInput) < Len(rawInput)
    /\ \E i, j, k \in 1..Len(rawInput) :
          /\ i < j /\ j < k
          /\ rawInput[i] = rawInput[k]
          /\ rawInput[j] # rawInput[i]

-----------------------------------------------------------------------------
\* the collections of a server in the order lines 194-195 enumerate them
RECURSIVE Flatten(_)
Flatten(roots) == IF roots = << >> THEN << >> ELSE Head(roots) \o Flatten(Tail(roots))

EnumeratedColls == Flatten(ApiRoots(taxiiDisoveryURL))

\* the collection at position i of the enumeration is asked for
Wanted(i) ==
    \/ taxiiCollectionName = Star
    \/ /\ EnumeratedColls[i].title # None
       /\ Lower(EnumeratedColls[i].title) = Lower(taxiiCollectionName)

WantedPositions == { i \in 1..Len(EnumeratedColls) : Wanted(i) }

SelectedIds == { collectionUrls[i].id : i \in 1..Len(collectionUrls) }

\* the ids of the collections a session was opened for, in order
RECURSIVE SessionIds(_)
SessionIds(es) ==
    IF es = << >> THEN << >>
    ELSE IF Head(es).op = "session" THEN << Head(es).coll >> \o SessionIds(Tail(es))
    ELSE SessionIds(Tail(es))

Retrieving == pc \in { "retrieve", "page" }

\* the specifier's try block ends in this step without reaching line 235
EndsNormally == Retrieving /\ pc' = "process" /\ ~Warns("spec", inarg)

\* C4 as claimed: once enumeration is complete, the selected collections are
\* exactly the collections asked for (all of them for "*", those with a title
\* equal to the name case-insensitively otherwise), and a specifier that ends
\* without an exception has requested objects from each of them.
C4_AllSelected == Retrieving => SelectedIds = { EnumeratedColls[i].id : i \in WantedPositions }

C4_AllRetrieved ==
    EndsNormally =>
        \A i \in WantedPositions :
            \E n \in 1..Len(events') : /\ events'[n].op = "request"
                                       /\ events'[n].coll = EnumeratedColls[i].id

C4_Selected ==
    Retrieving =>
        /\ \A i, j \in 1..Len(collectionUrls) :
              collectionUrls[i].title = collectionUrls[j].title => i = j
        /\ { collectionUrls[i].title : i \in 1..Len(collectionUrls) }
              = { EnumeratedColls[i].title : i \in WantedPositions }
        /\ \A k \in 1..Len(collectionUrls) :
              \E i \in WantedPositions :
                  /\ EnumeratedColls[i].title = collectionUrls[k].title
                  /\ EnumeratedColls[i].id = collectionUrls[k].id
                  /\ EnumeratedColls[i].url = collectionUrls[k].url
                  /\ \A j \in WantedPositions :
                        EnumeratedColls[j].title = collectionUrls[k].title => j <= i
        /\ SessionIds(events)
              = [k \in 1..(IF pc = "page" THEN colIdx ELSE colIdx - 1) |-> collectionUrls[k].id]
        /\ \A n \in 1..(Len(events) - 1) :
              events[n].op = "session" =>
                  /\ events[n + 1].op = "request"
                  /\ events[n + 1].coll = events[n].coll
                  /\ events[n + 1].page = 1

C4_Retrieved ==
    /\ (pc = "page" /\ pageNo = 0 =>
          /\ Len(events') > Len(events)
          /\ events'[Len(events) + 1] = Event("request", collectionUrls[colIdx].id, 1))
    /\ (EndsNormally => /\ pc = "page"
                        /\ colIdx = Len(collectionUrls))

-----------------------------------------------------------------------------
\* C5: an exception raised while a collection is paged is caught at that
\* collection: the step logs the collection's title, never the specifier,
\* paging goes on with the next selected collection, none is passed over, and
\* the specifier ends only after the last one.
C5_Step ==
    pc = "page" =>
        /\ ~Warns("spec", inarg)
        /\ collectionUrls' = collectionUrls
        /\ (lastWarning' # lastWarning =>
              /\ Warns("coll", collectionUrls[colIdx].title)
              /\ colIdx' = colIdx + 1
              /\ pageNo' \in { pageNo, pageNo + 1 })
        /\ colIdx' \in { colIdx, colIdx + 1 }
        /\ (colIdx' = colIdx => pc' = "page" /\ pageNo' = pageNo + 1)
        /\ (colIdx' = colIdx + 1 /\ colIdx < Len(collectionUrls) =>
              /\ pc' = "retrieve"
              /\ argsInput' = argsInput)
        /\ (pc' = "process" => colIdx = Len(collectionUrls))

\* C5: every step of the run satisfies C5_Step.
C5_PerCollectionIsolation == [][C5_Step]_vars

\* a page request failed for one collection, and a collection opened after it
\* was handed to the Converter
C5_Witness ==
    /\ lastWarning.scope = "coll"
    /\ \E m, n \in 1..Len(events) :
          /\ m + 1 < n
          /\ events[m].op = "request"
          /\ events[m + 1].op = "session"
          /\ events[n].op = "conv"
          /\ events[n].coll = events[m + 1].coll

-----------------------------------------------------------------------------
\* C6: the fields after the protocol marker are assigned by position: three
\* give version, discoveryURL and collectionName with no username and no
\* password, a fourth is the username, a fifth the password, and further
\* fields change nothing.
C6_Step ==
    (AtTaxiiSpecifier /\ Decodes(inarg)) =>
        LET f == FieldsOf(inarg) IN
        /\ Join(Split(inarg, "|"), "|") = inarg
        /\ \A i \in 1..Len(Split(inarg, "|")) : ~Contains(Split(inarg, "|")[i], << "|" >>)
        /\ (Len(f) >= 3 => /\ taxiiVersion' = f[1]
                           /\ taxiiDisoveryURL' = f[2]
                           /\ taxiiCollectionName' = f[3])
        /\ (Len(f) = 3 => taxiiUsername' = None /\ taxiiPassword' = None)
        /\ (Len(f) = 4 => taxiiUsername' = f[4] /\ taxiiPassword' = None)
        /\ (Len(f) >= 5 => taxiiUsername' = f[4] /\ taxiiPassword' = f[5])

\* C6: every step of the run satisfies C6_Step.
C6_ConnectionStringParsing == [][C6_Step]_vars

\* a connection string of seven fields was parsed: username and password are
\* the fifth and the sixth
C6_Witness ==
    /\ pc = "enumerate"
    /\ inarg = TaxiiName
    /\ Len(taxiiConnInfo) = 6
    /\ taxiiVersion = << "2",".","0" >>
    /\ taxiiCollectionName = << "A" >>
    /\ taxiiUsername = << "n" >>
    /\ taxiiPassword = << "p" >>

-----------------------------------------------------------------------------
\* C7: a connection string with fewer than three fields or with a version
\* other than "2.0" and "2.1" makes no call at all (no connection, no
\* enumeration, no hand-off); the step logs the specifier and the loop goes
\* on with the next one.
C7_Step ==
    (AtTaxiiSpecifier /\ IncompleteOrUnsupported(inarg)) =>
        /\ events' = events
        /\ Warns("spec", inarg)
        /\ argsInput' = Tail(argsInput)
        /\ pc' = "process"

C7_NoCalls == \A n \in 1..Len(events) : IsFile(events[n].spec) \/ ~IncompleteOrUnsupported(events[n].spec)

\* C7: C7_Step in every step; no recorded call was made for such a specifier.
C7_UnsupportedSpec == [][C7_Step]_vars /\ []C7_NoCalls

\* the version was refused, and a later connection string is being processed
C7_Witness ==
    /\ pc = "enumerate"
    /\ lastWarning.scope = "spec"
    /\ lastWarning.kind = "Exception"
    /\ IncompleteOrUnsupported(lastWarning.id)
    /\ events[1].spec = inarg

-----------------------------------------------------------------------------
\* C8: a specifier that is neither an existing file nor begins with the
\* protocol marker is logged by name, is not handed to the Converter, and
\* the loop goes on with the next one.
C8_Step ==
    (AtSpecifier /\ ~IsFile(inarg) /\ ~StartsWith(Lower(inarg), TaxiiMarker)) =>
        /\ lastWarning'.id = inarg
        /\ ~ConvertedIn(events', inarg)
        /\ argsInput' = Tail(argsInput)
        /\ pc' = "process"

\* C8: every step of the run satisfies C8_Step.
C8_UnrecognizedLogged == [][C8_Step]_vars

-----------------------------------------------------------------------------
\* C9: every step of the list-file loop takes exactly one reference and stays
\* in the loop; what args.input held is kept; an exception is logged with the
\* reference and adds nothing; a reference that is no file and has no "://"
\* is logged as not found and adds nothing.
C9_Step ==
    (pc = "listfiles" /\ inputFile # << >>) =>
        /\ inputFile' = Tail(inputFile)
        /\ pc' = "listfiles"
        /\ IsPrefix(argsInput, argsInput')
        /\ (lastWarning' # lastWarning =>
              /\ Warns("ref", infileArg)
              /\ argsInput' = argsInput)
        /\ (~IsFile(infileArg) /\ ~Contains(infileArg, << ":","/","/" >>) =>
              /\ lastWarning' = [scope |-> "ref", id |-> infileArg, kind |-> "not found"]
              /\ argsInput' = argsInput)

\* C9: every step of the run satisfies C9_Step.
C9_ListFileIsolation == [][C9_Step]_vars

\* reading one reference raised, the lines of the other one were added, and
\* the direct specifier is still in front
C9_Witness ==
    /\ pc = "listfiles"
    /\ inputFile = << >>
    /\ lastWarning = [scope |-> "ref", id |-> RefLocal, kind |-> "OSError"]
    /\ Len(argsInput) = 5
    /\ argsInput[1] = TaxiiStar
    /\ argsInput[2] = FileB

-----------------------------------------------------------------------------
\* C10: the list-file loop appends the lines of a reference behind what
\* args.input holds; the processing loop takes the specifiers from the front,
\* one at a time, and every call a step makes is made for the specifier in
\* front; within a collection every hand-off follows the request for that
\* page at once, and a page is requested only after the hand-off of the page
\* before it (the first one after the session was opened).
C10_Step ==
    /\ (pc = "listfiles" /\ inputFile # << >> =>
          argsInput' \in { argsInput, argsInput \o SplitLines(FileContent(infileArg)) })
    /\ (pc \in Processing /\ argsInput # << >> =>
          /\ argsInput' \in { argsInput, Tail(argsInput) }
          /\ \A n \in 1..Len(NewCalls) : NewCalls[n].spec = inarg)
    /\ (pc \in Processing /\ argsInput = << >> => events' = events)

C10_PageOrder ==
    \A n \in 1..Len(events) :
        /\ events[n].op = "conv" /\ events[n].coll # 0 =>
              /\ n > 1
              /\ events[n - 1] = [events[n] EXCEPT !.op = "request"]
        /\ events[n].op = "request" =>
              /\ n > 1
              /\ IF events[n].page = 1
                 THEN events[n - 1] = [events[n] EXCEPT !.op = "session", !.page = 0]
                 ELSE events[n - 1] = [events[n] EXCEPT !.op = "conv", !.page = events[n].page - 1]

\* C10: C10_Step in every step, C10_PageOrder in every state.
C10_SequentialHandOff == [][C10_Step]_vars /\ []C10_PageOrder

\* the two envelopes of a collection were handed over in page order, after
\* the envelope of the collection before it
C10_Witness ==
    /\ Len(events) >= 8
    /\ \E n \in 1..(Len(events) - 4) :
          /\ events[n].op = "conv" /\ events[n].coll = 3
          /\ events[n + 1].op = "session" /\ events[n + 1].coll = 2
          /\ events[n + 2].op = "request" /\ events[n + 2].page = 1
          /\ events[n + 3].op = "conv" /\ events[n + 3].page = 1
          /\ events[n + 4].op = "request" /\ events[n + 4].page = 2
    /\ events[Len(events)].op = "conv"
    /\ events[Len(events)].page = 2

-----------------------------------------------------------------------------
\* ceil(N / P) for the N objects of collection id and the page size P
CeilPages(id) == (NumObjects(id) + TaxiiPageSize - 1) \div TaxiiPageSize

\* ceil(N / P), and one envelope for a collection that holds nothing
DuePages(id) == IF NumObjects(id) = 0 THEN 1 ELSE CeilPages(id)

\* one step of the page loop of a collection that is due `due` envelopes:
\* the step requests one page with the page size and the indicator filter,
\* hands over at most one envelope and never one beyond `due`; the loop goes
\* on while fewer than `due` were handed over, and leaves the collection
\* with fewer than `due` only through the collection's handler
C11_StepFor(due) ==
    pc = "page" =>
        /\ requestArgs' = [per_request |-> TaxiiPageSize, filter |-> [type |-> "indicator"]]
        /\ pageNo' \in { pageNo, pageNo + 1 }
        /\ pageNo' <= due
        /\ Cardinality({ n \in 1..Len(NewCalls) : NewCalls[n].op = "request" }) = 1
        /\ Cardinality({ n \in 1..Len(NewCalls) : NewCalls[n].op = "conv" }) = pageNo' - pageNo
        /\ \A n \in 1..Len(NewCalls) :
              /\ NewCalls[n].coll = collection.id
              /\ NewCalls[n].page = pageNo + 1
        /\ IF pc' = "page" /\ colIdx' = colIdx
           THEN pageNo' = pageNo + 1 /\ pageNo' < due
           ELSE pageNo' < due => Warns("coll", collectionUrls[colIdx].title)

\* no envelope of a collection is handed over twice
C11_Once ==
    \A m, n \in 1..Len(events) :
        /\ m # n
        /\ events[m].op = "conv"
        /\ events[m].coll # 0
        => events[m] # events[n]

-----------------------------------------------------------------------------
\* main() is inside the with statement of line 118
InOutputContext == pc \in { "entered", "listfiles" } \cup Processing

\* C12: with an output path the file is open whenever main() is inside the
\* with statement, so before the first list file or specifier is looked at
\* and during every call of the Converter, and it is not open once the run
\* has ended; without a path the context holds no file.
C12_Sink ==
    /\ output # None =>
          /\ InOutputContext => outfile = "open"
          /\ pc \in { "done", "crashed" } => outfile \in { "closed", "not entered" }
          /\ pc = "done" => outfile = "closed"
          /\ pc = "start" => outfile = "not entered"
    /\ output = None => outfile \in { "not entered", "none" }

\* the file is opened by the first step of the run only, a closed file stays
\* closed, an open file is closed only by the step that ends the run, and a
\* step that calls the Converter has the file open before and after it
C12_Step ==
    /\ output' = output
    /\ outfile' = "open" /\ outfile # "open" => pc = "start"
    /\ outfile = "closed" => outfile' = "closed"
    /\ outfile = "open" /\ outfile' # "open" =>
          /\ outfile' = "closed"
          /\ pc' \in { "done", "crashed" }
    /\ output # None /\ ConvertedIn(NewCalls, inarg) => outfile = "open" /\ outfile' = "open"

\* C12: C12_Sink in every state, C12_Step in every step.
C12_OutputSinkRelease == []C12_Sink /\ [][C12_Step]_vars

\* the run ended normally with the output file closed, after a call of the
\* Converter and after an exception that a handler caught
C12_Witness ==
    /\ pc = "done"
    /\ output = OutPath
    /\ outfile = "closed"
    /\ lastWarning.scope = "spec"
    /\ events # << >>
    /\ ConvertedIn(events, events[1].spec)

-----------------------------------------------------------------------------
\* lbl is the last component of path x without its last extension: x is a
\* directory part that is empty or ends with "/", then lbl, then nothing or
\* one "." and an extension that holds neither "." nor "/"
IsBaseNameSansExtension(lbl, x) ==
    \E i \in 0..Len(x) :
        /\ i = 0 \/ x[i] = "/"
        /\ \A k \in (i + 1)..Len(x) : x[k] # "/"
        /\ LET base == SubSeq(x, i + 1, Len(x)) IN
           \/ /\ \A k \in 1..Len(base) : base[k] # "."
              /\ lbl = base
           \/ \E j \in 2..Len(base) :
                 /\ base[j] = "."
                 /\ \A k \in (j + 1)..Len(base) : base[k] # "."
                 /\ lbl = SubSeq(base, 1, j - 1)

\* the two titles joined by ":", a null half left out with the separator
JoinedTitles(serverTitle, title) ==
    IF serverTitle # None /\ title # None THEN serverTitle \o << ":" >> \o title
    ELSE IF serverTitle # None THEN serverTitle
    ELSE IF title # None THEN title
    ELSE << >>

C13_Step ==
    /\ pc = "process" /\ ConvertedIn(NewCalls, inarg) =>
          IsBaseNameSansExtension(source', inarg)
    /\ pc = "page" /\ ConvertedIn(NewCalls, inarg) =>
          source' = JoinedTitles(ServerTitle(taxiiDisoveryURL), collectionUrls[colIdx].title)
    /\ NewCalls = << >> => source' = source
    /\ FileSource(<< "d","/","b",".","c",".","j" >>) = << "b",".","c" >>
    /\ FileSource(<< "a",".","j" >>) = << "a" >>
    /\ TaxiiSource(<< "s" >>, << "a" >>) = << "s",":","a" >>
    /\ TaxiiSource(<< "s" >>, None) = << "s" >>
    /\ TaxiiSource(None, << "b" >>) = << "b" >>
    /\ TaxiiSource(None, None) = << >>

\* C13: a step that hands a local file to the Converter passes the file's
\* base name without its last extension as the label, and a step that hands
\* an envelope over passes the server's title and the collection's title
\* joined by ":", with a title that is None left out together with the ":",
\* so the empty string when both are None.
C13_ProvenanceLabel == [][C13_Step]_vars

\* the envelope of an untitled collection of an untitled server was handed
\* over with the empty label
C13_Witness ==
    /\ source = << >>
    /\ events # << >>
    /\ events[Len(events)].op = "conv"
    /\ events[Len(events)].coll = 5
    /\ ServerTitle(taxiiDisoveryURL) = None
    /\ \E i \in 1..Len(collectionUrls) :
          collectionUrls[i].id = 5 /\ collectionUrls[i].title = None

-----------------------------------------------------------------------------
\* a step at line 206 that opens no session: the constructor raised
C14_Step ==
    pc = "retrieve" /\ pc' # "page" =>
        /\ Warns("coll", collectionUrls[colIdx].title)
        /\ colIdx' = colIdx + 1
        /\ colIdx < Len(collectionUrls) =>
              /\ pc' = "retrieve"
              /\ argsInput' = argsInput

\* C14: when opening the session of a matched collection raises, the
\* exception is logged for that collection and the loop goes on to open the
\* session of the next matched collection of the same specifier.
C14_SessionOpenIsolated == [][C14_Step]_vars

-----------------------------------------------------------------------------
\* the step that takes a specifier naming an existing file; openMayRaise
\* tells whether the step may also end with the OSError of open logged
C15_StepWith(openMayRaise) ==
    AtSpecifier /\ IsFile(inarg) =>
        /\ UNCHANGED << taxiiConnInfo, taxiiVersion, taxiiDisoveryURL, taxiiCollectionName,
                        taxiiUsername, taxiiPassword, server >>
        /\ \/ NewCalls = << [op |-> "open", spec |-> inarg, coll |-> 0, page |-> 0],
                            [op |-> "conv", spec |-> inarg, coll |-> 0, page |-> 0],
                            [op |-> "close", spec |-> inarg, coll |-> 0, page |-> 0] >>
           \/ /\ openMayRaise
              /\ NewCalls = << >>
              /\ Warns("spec", inarg)
              /\ lastWarning'.kind = "OSError"
        /\ argsInput' = Tail(argsInput)
        /\ pc' = "process"

\* a stream that was opened was handed over once and closed right after
C15_Closed ==
    \A n \in 1..Len(events) :
        events[n].op = "open" =>
            /\ Len(events) = n + 2
            /\ events[n + 1].op = "conv"
            /\ events[n + 2].op = "close"

\* C15 as stated: the step that takes a specifier naming an existing file,
\* also one that starts with the protocol marker, parses no connection
\* string and connects to no server; it opens the file, hands the stream to
\* the Converter exactly once and closes it, whether or not the Converter
\* raises, and the next specifier is taken only then.
C15_Original == [][C15_StepWith(FALSE)]_vars /\ []C15_Closed

\* C15: as above, except that open may raise for the existing file: then
\* there is no stream and no call of the Converter, and the OSError is
\* logged for the specifier.
C15_LocalFilePrecedence == [][C15_StepWith(TRUE)]_vars /\ []C15_Closed

\* the Converter raised on the stream of an existing file whose name starts
\* with the protocol marker, and the stream was closed
C15_Witness ==
    /\ pc = "process"
    /\ Len(events) = 3
    /\ events[1].spec = FileTaxii
    /\ events[2].op = "conv"
    /\ events[3].op = "close"
    /\ lastWarning = Warning("spec", FileTaxii, "Error")
    /\ IsTaxiiSpecifier(FileTaxii)

-----------------------------------------------------------------------------
\* the last position of the enumeration whose collection is asked for and
\* has the title of the collection at position i
LastWithTitle(i) ==
    CHOOSE j \in WantedPositions :
        /\ EnumeratedColls[j].title = EnumeratedColls[i].title
        /\ \A k \in WantedPositions :
              EnumeratedColls[k].title = EnumeratedColls[i].title => k <= j

\* how many sessions es records for collection id
SessionCount(es, id) == Cardinality({ n \in 1..Len(es) : es[n].op = "session" /\ es[n].coll = id })

\* once enumeration is complete, a collection asked for is selected exactly
\* when no later collection asked for has the identical title, and a title
\* is a key on its own even when another key differs from it in case only
C16_Keys ==
    Retrieving =>
        /\ \A i \in WantedPositions :
              /\ EnumeratedColls[i].id \in SelectedIds <=> i = LastWithTitle(i)
              /\ Cardinality({ k \in 1..Len(collectionUrls) :
                                  collectionUrls[k].title = EnumeratedColls[i].title }) = 1
        /\ \A i, j \in WantedPositions :
              EnumeratedColls[i].title # EnumeratedColls[j].title =>
                  \E k, l \in 1..Len(collectionUrls) :
                      /\ k # l
                      /\ collectionUrls[k].id = EnumeratedColls[LastWithTitle(i)].id
                      /\ collectionUrls[l].id = EnumeratedColls[LastWithTitle(j)].id
        /\ \A i \in WantedPositions : SessionCount(events, EnumeratedColls[i].id) <= 1

\* a specifier that ends without an exception at its own scope has opened
\* exactly one session for the last collection of every title, and asked it
\* for its objects, and none for the ones before it
C16_Retrieved ==
    EndsNormally =>
        \A i \in WantedPositions :
            /\ SessionCount(events', EnumeratedColls[i].id) = (IF i = LastWithTitle(i) THEN 1 ELSE 0)
            /\ i = LastWithTitle(i) =>
                  \E n \in 1..Len(events') : /\ events'[n].op = "request"
                                             /\ events'[n].coll = EnumeratedColls[i].id
                                             /\ events'[n].page = 1

\* C16: of the matched collections of a server that have the identical
\* title exactly one is selected, the one enumerated last across the API
\* roots, and a specifier that no exception ends has opened it once and
\* asked it for its objects, and the earlier ones not at all; titles that differ in case only
\* are keys of their own and each of them is retrieved.
C16_LastWins == []C16_Keys /\ [][C16_Retrieved]_vars

\* the name "A" matched two collections titled "a" and one titled "A"; the
\* later "a" and the "A" were retrieved, in the order of their keys
C16_Witness ==
    /\ pc = "process"
    /\ taxiiCollectionName = TitleUpperA
    /\ taxiiDisoveryURL = ServerU
    /\ events # << >>
    /\ events[1].spec = TaxiiName
    /\ SessionIds(events) = << 3, 2 >>
    /\ events[Len(events)].op = "conv"
    /\ events[Len(events)].coll = 2
    /\ events[Len(events)].page = 2
    /\ lastWarning.scope # "coll"

-----------------------------------------------------------------------------
\* C17: while a protocol specifier is processed, the version field parsed
\* from it is "2.0" or "2.1" and the Server object is of that version; while
\* a collection is paged, the Collection object and the page generator are of
\* that version too; a Collection object and the generator made for it are
\* never of different versions.
C17_VersionConsistency ==
    /\ pc \in { "enumerate", "retrieve", "page" } =>
          /\ taxiiVersion = FieldsOf(inarg)[1]
          /\ taxiiVersion \in { << "2",".","0" >>, << "2",".","1" >> }
          /\ server = taxiiVersion
    /\ pc = "page" =>
          /\ collection.ver = taxiiVersion
          /\ pager = taxiiVersion
    /\ pager # None => collection.ver = pager

\* a collection of a 2.0 server is paged with the 2.0 client, the page
\* generator having yielded one envelope
C17_Witness ==
    /\ pc = "page"
    /\ inarg = TaxiiName
    /\ taxiiVersion = Version20
    /\ server = Version20
    /\ collection = [ver |-> Version20, id |-> 2]
    /\ pager = Version20
    /\ pageNo = 1

-----------------------------------------------------------------------------
\* the api_roots of the server that specifier x names
RootsOf(x) == ApiRoots(FieldsOf(x)[2])

\* a session is opened, a page requested and an envelope handed over only
\* after the collections of every api_root of the server were listed, and
\* none is listed after that; while collections are retrieved the loop over
\* the api_roots is at its end
C18_Order ==
    /\ \A n \in 1..Len(events) :
          events[n].op \in { "session", "request" } \/ (events[n].op = "conv" /\ events[n].coll # 0) =>
              /\ \A r \in 1..Len(RootsOf(events[n].spec)) :
                    \E m \in 1..(n - 1) : events[m].op = "collections" /\ events[m].page = r
              /\ \A m \in (n + 1)..Len(events) : events[m].op # "collections"
    /\ Retrieving => rootIdx = Len(ApiRoots(taxiiDisoveryURL))

\* a step of the enumeration that raises ends the specifier: nothing was
\* and nothing is retrieved for it
C18_Step ==
    pc = "enumerate" /\ Warns("spec", inarg) =>
        /\ pc' = "process"
        /\ argsInput' = Tail(argsInput)
        /\ UNCHANGED << source, collection, pager, pageNo, requestArgs >>
        /\ \A n \in 1..Len(events') :
              events'[n].spec = inarg => events'[n].op \in { "connect", "collections" }

\* C18: the collections of all api_roots are enumerated before the first
\* session is opened or the first page requested, and when the enumeration
\* raises, no session is opened, no page requested and the Converter not
\* called for the specifier, whatever was matched before.
C18_EnumerateBeforeRetrieve == []C18_Order /\ [][C18_Step]_vars

\* the first api_root gave the match for "b", the second one has a
\* collection without a title: the AttributeError ended the specifier
\* before anything was retrieved
C18_Witness ==
    /\ pc = "process"
    /\ lastWarning = Warning("spec", TaxiiB64, "AttributeError")
    /\ Len(collectionUrls) = 1
    /\ collectionUrls[1].title = TitleB
    /\ Len(events) = 3
    /\ events[1].spec = TaxiiB64
    /\ events[3] = [op |-> "collections", spec |-> TaxiiB64, coll |-> 0, page |-> 2]

====
